---- MODULE Spec2Model ----
(***************************************************************************)
(* A model of linehaul: the DogStatsD sink (linehaul/dogstats), the        *)
(* command line front end (linehaul/cli.py) and the ingestion pipeline     *)
(* the `server` command starts.                                            *)
(*                                                                         *)
(* Python's None is the empty sequence <<>> and a present value v is the   *)
(* one-element sequence <<v>>, so that optional integers, strings and      *)
(* socket handles can be compared without mixing types.                    *)
(***************************************************************************)
EXTENDS Integers, Sequences, FiniteSets, TLC

VARIABLES
    statsd,     \* the attributes of the TrioDogStatsd object
    sockets,    \* the UDP sockets created so far: id |-> "open" | "closed"
    usedSocks,  \* the ids of the sockets a packet has been sent on
    task,       \* per task emitting metrics: its position in the call it runs
    cfg,        \* the options of the `server` command
    srvDefault, \* the server's own defaults for arguments it is not passed
    conn,       \* per connection handler: state, outstanding enqueue, drain timer
    nread,      \* the number of events parsed so far, also the last event id
    enqueued,   \* the ids of the events put on the shared queue
    queue,      \* the shared bounded queue
    batcher,    \* the batcher: state, batch in progress, age of its first event
    chan,       \* the handoff channel between batcher and shipper workers
    worker,     \* per shipper worker: state, batch, attempts
    outcomes,   \* per event id: the outcomes accounted for it
    shutdown,   \* SIGINT/SIGTERM has been received
    exited,     \* the process has exited
    cli         \* a run of the command line: options, position, error, effects

statsdVars == <<statsd, sockets, usedSocks, task>>

pipeVars ==
    <<cfg, srvDefault, conn, nread, enqueued, queue, batcher, chan, worker,
      outcomes, shutdown, exited>>

cliVars == <<cli>>

vars == <<statsdVars, pipeVars, cliVars>>

None == <<>>

Some(v) == <<v>>

(***************************************************************************)
(* Bounds of the model.                                                    *)
(***************************************************************************)
\* metric values range over -MaxValue..MaxValue and None
MaxValue == 1
\* at most MaxCalls metric calls are made in a run, by all tasks together
MaxCalls == 2

Tasks == {"t1", "t2"}

Values == {None} \cup {Some(v) : v \in (0 - MaxValue)..MaxValue}

\* sample rates, written as Python prints them: 1 and 0.5
Rates == {"1", "0.5"}

(***************************************************************************)
(* "%s" % value for an int: a minus sign and the decimal digits.           *)
(***************************************************************************)
Digits == <<"0", "1", "2", "3", "4", "5", "6", "7", "8", "9">>

RECURSIVE NatToStr(_)
NatToStr(n) ==
    IF n < 10 THEN Digits[n + 1]
    ELSE NatToStr(n \div 10) \o Digits[(n % 10) + 1]

IntToStr(n) == IF n < 0 THEN "-" \o NatToStr(0 - n) ELSE NatToStr(n)

\* ",".join(tags)
RECURSIVE JoinTags(_)
JoinTags(tags) ==
    IF Len(tags) = 0 THEN ""
    ELSE IF Len(tags) = 1 THEN tags[1]
    ELSE tags[1] \o "," \o JoinTags(Tail(tags))

(***************************************************************************)
(* _BaseTrioDogStatsd                                                      *)
(***************************************************************************)
\* __init__: the attributes set at construction. max_buffer_size,
\* use_default_route, "use_ms=False" and _socket are not among them: for
\* these None is "not set" and Some(v) is "set to v". has_socket is
\* hasattr(self, "_socket").
StatsdInit(namespace, constant_tags) ==
    [host |-> "localhost", port |-> 8125, namespace |-> namespace,
     constant_tags |-> constant_tags, use_ms |-> FALSE,
     max_buffer_size |-> None, use_default_route |-> None,
     has_socket |-> FALSE, _socket |-> None]
    @@ ("use_ms=False" :> None)

\* the keys configure accepts, "use_ms=False" as the source spells it
AcceptedKeys ==
    {"host", "port", "max_buffer_size", "namespace", "constant_tags",
     "use_ms=False", "use_default_route"}

\* configure's loop over kwargs, a sequence of <<key, value>>: each key is
\* tested and set in turn, and the first key that is not accepted raises
RECURSIVE SetAttrs(_, _)
SetAttrs(self, kwargs) ==
    IF kwargs = <<>> THEN [error |-> None, self |-> self]
    ELSE IF kwargs[1][1] \notin AcceptedKeys
    THEN [error |-> Some("TypeError"), self |-> self]
    ELSE SetAttrs([self EXCEPT ![kwargs[1][1]] = kwargs[1][2]], Tail(kwargs))

\* the test of configure read as getattr(self, "_socket", None)
HasSocketTruthy(self) == self.has_socket /\ self._socket # None

\* hasattr(self, "_socket")
HasSocket(self) == self.has_socket

\* configure: the exception it raises, if any, and the attributes after it
ConfigureOutcome(self, kwargs) ==
    IF HasSocket(self) THEN [error |-> Some("RuntimeError"), self |-> self]
    ELSE SetAttrs(self, kwargs)

\* getattr(self, "_socket", None), taken as a condition
SocketTruthy == statsd.has_socket /\ statsd._socket # None

\* _add_constant_tags
AddConstantTags(tags) ==
    IF statsd.constant_tags # None
    THEN IF tags # None THEN tags \o statsd.constant_tags
         ELSE statsd.constant_tags
    ELSE tags

\* the payload _report formats: "%s%s:%s|%s%s%s"
Payload(metric, metric_type, valueStr, tags, sample_rate) ==
    (IF statsd.namespace # None THEN statsd.namespace[1] \o "." ELSE "")
    \o metric \o ":" \o valueStr \o "|" \o metric_type
    \o (IF sample_rate # "1" THEN "|@" \o sample_rate ELSE "")
    \o (IF tags # None THEN "|#" \o JoinTags(tags) ELSE "")

\* _report: None (nothing is sent) or Some(payload). sampledOut is the
\* outcome of random() > sample_rate.
Report(metric, metric_type, value, valueStr, tags, sample_rate, sampledOut) ==
    IF value = None THEN None
    ELSE IF sample_rate # "1" /\ sampledOut THEN None
    ELSE Some(Payload(metric, metric_type, valueStr,
                      AddConstantTags(tags), sample_rate))

(***************************************************************************)
(* TrioDogStatsd                                                           *)
(***************************************************************************)
\* Python's truth value of an optional int: None and 0 are false
ValueTruthy(value) == value # None /\ value[1] # 0

\* increment: the value is reported as given
IncrementValue(value) == value

\* decrement with the condition read as `value > 0`
DecrementValuePositiveOnly(value) ==
    IF value # None /\ value[1] > 0 THEN Some(0 - value[1]) ELSE value

\* decrement: metric_value = -value if value else value
DecrementValue(value) ==
    IF ValueTruthy(value) THEN Some(0 - value[1]) ELSE value

\* str() of an optional int that is not None
ValueStr(value) == IF value = None THEN "None" ELSE IntToStr(value[1])

(***************************************************************************)
(* TimedContextManagerDecorator                                            *)
(***************************************************************************)
\* wrapped() with the send after the call instead of in a finally clause
WrappedSendsOnReturnOnly(outcome) == outcome = "return"

\* wrapped(): `finally: await self._send(start)` runs on every exit of func
WrappedSends(outcome) == outcome \in {"return", "raise"}

\* __aexit__ is called on every exit of the block and always calls _send
AexitSends(outcome) == outcome \in {"return", "raise"}

\* __aexit__ returns None, so the block's exception is not suppressed; the
\* finally clause of wrapped() re-raises
Propagates(op) == op \in {"timed_call", "timed_with"}

\* __call__: the metric defaults to "<module>.<function>"
WrappedMetric(metric) == IF metric = None THEN "mod.fn" ELSE metric[1]

\* _send: elapsed seconds (a float), or whole milliseconds with use_ms
ElapsedStr(elapsed, use_ms) ==
    LET ms == IF use_ms # None THEN use_ms[1] ELSE statsd.use_ms
    IN IF ms THEN IntToStr(1000 * elapsed) ELSE IntToStr(elapsed) \o ".0"

(***************************************************************************)
(* The calls a task can make.                                              *)
(***************************************************************************)
CounterCalls ==
    [op : {"increment", "decrement"}, metric : {Some("m")}, value : Values,
     tags : {None}, rate : Rates, use_ms : {None}]
    \cup [op : {"increment", "decrement"}, metric : {Some("m")},
          value : {Some(1)}, tags : {<<"k:v">>}, rate : {"1"}, use_ms : {None}]

TimedCalls ==
    [op : {"timed_call", "timed_with"}, metric : {None, Some("m")},
     value : {None}, tags : {None}, rate : Rates, use_ms : {None}]

\* t1 draws from every call; the other tasks emit the plain counter
\* increments of a pipeline task, statsd.increment(metric)
PlainIncrement ==
    [op |-> "increment", metric |-> Some("m"), value |-> Some(1),
     tags |-> None, rate |-> "1", use_ms |-> None]

CounterCallsOf(t) == IF t = "t1" THEN CounterCalls ELSE {PlainIncrement}

TimedCallsOf(t) == IF t = "t1" THEN TimedCalls ELSE {}

NoCall ==
    [op |-> "none", metric |-> None, value |-> None, tags |-> None,
     rate |-> "1", use_ms |-> None]

TaskInit ==
    [pc |-> "idle", call |-> NoCall, sock |-> 0, payload |-> None,
     sent |-> <<>>, body |-> "none", result |-> "none", calls |-> 0]

\* the number of calls made so far
RECURSIVE CallsMade(_)
CallsMade(T) ==
    IF T = {} THEN 0
    ELSE LET t == CHOOSE x \in T : TRUE
         IN task[t].calls + CallsMade(T \ {t})

\* the call returns to its caller
Finish(tk) ==
    [tk EXCEPT !.pc = "idle", !.sock = 0, !.payload = None,
               !.result = IF tk.body = "raise" /\ Propagates(tk.call.op)
                          THEN "raised" ELSE "ok"]

(***************************************************************************)
(* _send_to_server up to the first suspension point: nothing to send, or   *)
(* _get_socket finds the socket, or _get_socket creates one and awaits     *)
(* connect().                                                              *)
(***************************************************************************)
SendToServer(t, tk, pkt) ==
    /\ UNCHANGED <<pipeVars, cliVars>>
    /\ IF pkt = None
       THEN /\ task' = [task EXCEPT ![t] = Finish(tk)]
            /\ UNCHANGED <<statsd, sockets, usedSocks>>
       ELSE IF SocketTruthy
       THEN /\ task' = [task EXCEPT ![t] =
                           [tk EXCEPT !.pc = "send", !.sock = statsd._socket[1],
                                      !.payload = pkt]]
            /\ UNCHANGED <<statsd, sockets, usedSocks>>
       ELSE /\ sockets' = Append(sockets, "open")
            /\ task' = [task EXCEPT ![t] =
                           [tk EXCEPT !.pc = "connect",
                                      !.sock = Len(sockets) + 1,
                                      !.payload = pkt]]
            /\ UNCHANGED <<statsd, usedSocks>>

\* a task calls increment or decrement
CallCounter(t) ==
    \E c \in CounterCallsOf(t), sampledOut \in BOOLEAN :
        /\ task[t].pc = "idle"
        /\ CallsMade(Tasks) < MaxCalls
        /\ LET value == IF c.op = "decrement" THEN DecrementValue(c.value)
                        ELSE IncrementValue(c.value)
               tk == [TaskInit EXCEPT !.call = c, !.calls = task[t].calls + 1]
           IN SendToServer(t, tk,
                  Report(c.metric[1], "c", value, ValueStr(value), c.tags,
                         c.rate, sampledOut))

\* a task calls a function wrapped by timed(), or enters `async with timed()`
CallTimed(t) ==
    \E c \in TimedCallsOf(t) :
        /\ task[t].pc = "idle"
        /\ CallsMade(Tasks) < MaxCalls
        /\ LET tk == [TaskInit EXCEPT !.call = c, !.calls = task[t].calls + 1]
           IN IF c.op = "timed_with" /\ c.metric = None
              THEN \* __aenter__ raises TypeError; the block never runs
                   task' = [task EXCEPT ![t] = [tk EXCEPT !.result = "TypeError"]]
              ELSE task' = [task EXCEPT ![t] = [tk EXCEPT !.pc = "body"]]
        /\ UNCHANGED <<statsd, sockets, usedSocks, pipeVars, cliVars>>

\* the wrapped function, or the block, returns or raises after `elapsed`
BodyExit(t) ==
    \E outcome \in {"return", "raise"}, elapsed \in 0..1, sampledOut \in BOOLEAN :
        /\ task[t].pc = "body"
        /\ LET c == task[t].call
               tk == [task[t] EXCEPT !.body = outcome]
               sends == IF c.op = "timed_call" THEN WrappedSends(outcome)
                        ELSE AexitSends(outcome)
           IN SendToServer(t, tk,
                  IF sends
                  THEN Report(WrappedMetric(c.metric), "ms", Some(elapsed),
                              ElapsedStr(elapsed, c.use_ms), c.tags, c.rate,
                              sampledOut)
                  ELSE None)

\* _get_socket after connect(): self._socket = sock; return self._socket
Connected(t) ==
    /\ task[t].pc = "connect"
    /\ statsd' = [statsd EXCEPT !.has_socket = TRUE, !._socket = Some(task[t].sock)]
    /\ task' = [task EXCEPT ![t].pc = "send", ![t].sock = statsd'._socket[1]]
    /\ UNCHANGED <<sockets, usedSocks, pipeVars, cliVars>>

\* sock.send(packet)
Send(t) ==
    /\ task[t].pc = "send"
    /\ usedSocks' = usedSocks \cup {task[t].sock}
    /\ task' = [task EXCEPT ![t] =
                   Finish([task[t] EXCEPT !.sent =
                       Append(@, [sock |-> task[t].sock,
                                  payload |-> task[t].payload[1]])])]
    /\ UNCHANGED <<statsd, sockets, pipeVars, cliVars>>

\* _close_socket, called at shutdown once no task is inside a call
CloseSocket ==
    /\ \A t \in Tasks : task[t].pc = "idle"
    /\ SocketTruthy
    /\ sockets' = [sockets EXCEPT ![statsd._socket[1]] = "closed"]
    /\ statsd' = [statsd EXCEPT !._socket = None]
    /\ UNCHANGED <<usedSocks, task, pipeVars, cliVars>>

\* the keyword arguments of the configure calls made, in call order
ConfigureCalls ==
    {<<<<"host", "10.0.0.1">>, <<"port", 9125>>>>,
     <<<<"namespace", Some("ns")>>, <<"constant_tags", <<"env:prod">>>>>>,
     <<<<"host", "10.0.0.1">>, <<"bogus", "x">>>>,
     <<<<"bogus", "x">>, <<"host", "10.0.0.1">>>>,
     <<<<"port", 9125>>, <<"use_ms", TRUE>>>>,
     <<<<"use_ms=False", Some(TRUE)>>, <<"max_buffer_size", Some(50)>>,
       <<"use_default_route", Some(TRUE)>>>>}

\* a task calls configure(**kwargs); the call does not suspend
Configure(t) ==
    \E kwargs \in ConfigureCalls :
        /\ task[t].pc = "idle"
        /\ CallsMade(Tasks) < MaxCalls
        /\ LET out == ConfigureOutcome(statsd, kwargs)
           IN /\ statsd' = out.self
              /\ task' = [task EXCEPT ![t] =
                    [TaskInit EXCEPT
                        !.call = [op |-> "configure", kwargs |-> kwargs],
                        !.calls = task[t].calls + 1,
                        !.result = IF out.error = None THEN "ok"
                                   ELSE out.error[1]]]
        /\ UNCHANGED <<sockets, usedSocks, pipeVars, cliVars>>

\* a task calls increment(metric), or increment(metric, None) which sends
\* nothing
EmitPlain(t) ==
    /\ CallCounter(t)
    /\ task'[t].call \in {PlainIncrement, [PlainIncrement EXCEPT !.value = None]}

\* the sink before any metric is sent
StatsdStart(namespace, constant_tags) ==
    /\ statsd = StatsdInit(namespace, constant_tags)
    /\ sockets = <<>>
    /\ usedSocks = {}
    /\ task = [t \in Tasks |-> TaskInit]

(***************************************************************************)
(* linehaul/cli.py: the credentials options of `server` and `migrate`.     *)
(***************************************************************************)
\* the command line not run
CliIdle == cli = [pc |-> "idle"]

Commands == {"server", "migrate"}

\* what --credentials-file can name: credentials, a file that is not JSON,
\* JSON without client_email and private_key
FileKinds == {"credentials", "not_json", "no_keys"}

\* what --credentials-blob can hold: the same, base64 encoded, or text that
\* is not base64
BlobKinds == FileKinds \cup {"not_base64"}

\* _validate_base64: None stays None, base64 is decoded, anything else is
\* a BadParameter
ValidateBase64(value) ==
    IF value = None THEN [error |-> None, value |-> None]
    ELSE IF value[1] = "not_base64"
    THEN [error |-> Some("BadParameter"), value |-> None]
    ELSE [error |-> None, value |-> value]

\* json.load / json.loads and the two lookups BigQuery() is called with
LoadCredentials(content) ==
    IF content = "not_json" THEN Some("JSONDecodeError")
    ELSE IF content = "no_keys" THEN Some("KeyError")
    ELSE None

\* _configure_bigquery without the test for both options: the file wins
ConfigureBigQueryFileWins(credentials_file, credentials_blob) ==
    IF credentials_file = None /\ credentials_blob = None
    THEN Some("UsageError")
    ELSE IF credentials_file # None
    THEN LoadCredentials(credentials_file[1])
    ELSE LoadCredentials(credentials_blob[1])

\* _configure_bigquery: the exception it raises, None when it returns the
\* BigQuery client
ConfigureBigQuery(credentials_file, credentials_blob) ==
    IF credentials_file = None /\ credentials_blob = None
    THEN Some("UsageError")
    ELSE IF credentials_file # None /\ credentials_blob # None
    THEN Some("UsageError")
    ELSE IF credentials_file # None
    THEN LoadCredentials(credentials_file[1])
    ELSE LoadCredentials(credentials_blob[1])

\* Python values that are written to the log
PyNone == [type |-> "None"]

PyStr(s) == [type |-> "str", str |-> s]

PyInt(n) == [type |-> "int", int |-> n]

\* a float, held as the text repr() gives for it
PyFloat(text) == [type |-> "float", repr |-> text]

\* "%r" % value
Repr(value) ==
    IF value.type = "None" THEN "None"
    ELSE IF value.type = "str" THEN "'" \o value.str \o "'"
    ELSE IF value.type = "int" THEN IntToStr(value.int)
    ELSE value.repr

\* the values --token can have; None is the option not given
Tokens == {None, Some("s3cret"), Some("hunter2")}

SENSITIVE == {"token"}

\* the dict server() iterates over, in its order, the other options at
\* their defaults
ServerConfiguration(token) ==
    <<<<"bind", PyStr("0.0.0.0")>>, <<"port", PyInt(512)>>,
      <<"token", IF token = None THEN PyNone ELSE PyStr(token[1])>>,
      <<"max_line_size", PyInt(16384)>>, <<"recv_size", PyInt(8192)>>,
      <<"cleanup_timeout", PyInt(30)>>, <<"qsize", PyInt(10000)>>,
      <<"batch_size", PyInt(500)>>, <<"batch_timeout", PyInt(30)>>,
      <<"retry_max_attempts", PyInt(10)>>,
      <<"retry_max_wait", PyFloat("60.0")>>,
      <<"retry_multiplier", PyFloat("0.5")>>, <<"api_timeout", PyInt(30)>>>>

\* the masking with the key compared to the option's name
MaskedByOptionName(key, value) ==
    IF key \in {"--token"} THEN PyStr("**********") ELSE value

\* if key in SENSITIVE: value = "*" * 10
Masked(key, value) ==
    IF key \in SENSITIVE THEN PyStr("**********") ELSE value

\* logging.debug("Configuring %s to %r", key, value)
ConfigurationLine(key, value) ==
    "Configuring " \o key \o " to " \o Repr(Masked(key, value))

\* the lines server() writes for its configuration
ConfigurationLog(token) ==
    LET conf == ServerConfiguration(token)
    IN [i \in DOMAIN conf |-> ConfigurationLine(conf[i][1], conf[i][2])]

\* the line _configure_bigquery writes once it has chosen a source
BigQueryLog(credentials_file, credentials_blob) ==
    IF (credentials_file = None) = (credentials_blob = None) THEN <<>>
    ELSE IF credentials_file # None
    THEN <<"Configuring BigQuery from " \o Repr(PyStr(credentials_file[1]))>>
    ELSE <<"Configuring BigQuery from base64 blob">>

\* click exits with 2 on a usage error; any other exception ends the
\* process with 1
ExitCode(error) ==
    IF error = None THEN 0
    ELSE IF error[1] \in {"UsageError", "BadParameter"} THEN 2
    ELSE 1

\* a command line as given
\* log and twin_log are the debug logs of this run and of the run that
\* differs from it only in --token, which is twin_token there
CliStart(cmd, file, blob, token, twin_token) ==
    cli = [pc |-> "parse", cmd |-> cmd, credentials_file |-> file,
           blob_option |-> blob, credentials_blob |-> None, error |-> None,
           clients |-> 0, started |-> None, exit_code |-> None,
           token |-> token, twin_token |-> twin_token,
           log |-> <<>>, twin_log |-> <<>>]

\* click parses the options and runs their callbacks
ParseOptions ==
    /\ cli.pc = "parse"
    /\ LET v == ValidateBase64(cli.blob_option)
       IN cli' = IF v.error # None
                 THEN [cli EXCEPT !.pc = "exit", !.error = v.error,
                                  !.exit_code = Some(ExitCode(v.error))]
                 ELSE [cli EXCEPT !.pc = "group", !.credentials_blob = v.value]
    /\ UNCHANGED <<statsdVars, pipeVars>>

\* cli(): logging is configured and statsd.configure is called with the
\* --datadog-* options, here at their defaults
Group ==
    /\ cli.pc = "group"
    /\ statsd' = ConfigureOutcome(statsd,
                      <<<<"host", "127.0.0.1">>, <<"port", 8125>>,
                        <<"namespace", None>>,
                        <<"use_default_route", Some(FALSE)>>>>).self
    /\ cli' = [cli EXCEPT !.pc = "command"]
    /\ UNCHANGED <<sockets, usedSocks, task, pipeVars>>

\* server() and migrate() up to the BigQuery client
Command ==
    /\ cli.pc = "command"
    /\ LET error == ConfigureBigQuery(cli.credentials_file, cli.credentials_blob)
           lines == BigQueryLog(cli.credentials_file, cli.credentials_blob)
       IN cli' = IF error # None
                 THEN [cli EXCEPT !.pc = "exit", !.error = error,
                                  !.exit_code = Some(ExitCode(error)),
                                  !.log = @ \o lines, !.twin_log = @ \o lines]
                 ELSE [cli EXCEPT !.pc = IF cli.cmd = "server" THEN "log"
                                         ELSE "run",
                                  !.clients = @ + 1,
                                  !.log = @ \o lines, !.twin_log = @ \o lines]
    /\ UNCHANGED <<statsdVars, pipeVars>>

\* server(): the configuration is written to the debug log
LogConfiguration ==
    /\ cli.pc = "log"
    /\ cli' = [cli EXCEPT !.pc = "run",
                          !.log = @ \o ConfigurationLog(cli.token),
                          !.twin_log = @ \o ConfigurationLog(cli.twin_token)]
    /\ UNCHANGED <<statsdVars, pipeVars>>

\* trio.run(server_, ...) or trio.run(migrate_, ...)
Run ==
    /\ cli.pc = "run"
    /\ cli' = [cli EXCEPT !.pc = "running", !.started = Some(cli.cmd)]
    /\ UNCHANGED <<statsdVars, pipeVars>>

\* trio.run returns
Return ==
    /\ cli.pc = "running"
    /\ cli' = [cli EXCEPT !.pc = "exit", !.exit_code = Some(0)]
    /\ UNCHANGED <<statsdVars, pipeVars>>

(***************************************************************************)
(* linehaul/cli.py: what the `server` command hands to the server.         *)
(***************************************************************************)
\* at most MaxEvents events are parsed in a run
MaxEvents == 3

Conns == {"c1", "c2"}

Workers == {"w1"}

\* the option values a run of `server` is started with
Configs ==
    {[queued_events |-> 1, batch_size |-> 2, batch_timeout |-> 1,
      retry_max_attempts |-> 2, cleanup_timeout |-> 1],
     [queued_events |-> 2, batch_size |-> 1, batch_timeout |-> 2,
      retry_max_attempts |-> 1, cleanup_timeout |-> 2]}

\* the responses of the warehouse API
Responses == {"ok", "row_errors", "auth", "retryable", "permanent"}

\* the values linehaul.server.server may default cleanup_timeout to
ServerDefaults == {[cleanup_timeout |-> 2]}

\* the keyword arguments with qsize one more than --queued-events
ServerKwargsQsizeOffByOne ==
    [qsize |-> cfg.queued_events + 1, batch_size |-> cfg.batch_size,
     batch_timeout |-> cfg.batch_timeout,
     retry_max_attempts |-> cfg.retry_max_attempts]

\* the keyword arguments with batch_size taken from --queued-events
ServerKwargsBatchSizeFromQueue ==
    [qsize |-> cfg.queued_events, batch_size |-> cfg.queued_events,
     batch_timeout |-> cfg.batch_timeout,
     retry_max_attempts |-> cfg.retry_max_attempts]

\* the keyword arguments with batch_timeout one more than --batch-timeout
ServerKwargsBatchTimeoutOffByOne ==
    [qsize |-> cfg.queued_events, batch_size |-> cfg.batch_size,
     batch_timeout |-> cfg.batch_timeout + 1,
     retry_max_attempts |-> cfg.retry_max_attempts]

\* the keyword arguments with retry_max_attempts counted as retries after
\* the first attempt
ServerKwargsRetriesPlusFirst ==
    [qsize |-> cfg.queued_events, batch_size |-> cfg.batch_size,
     batch_timeout |-> cfg.batch_timeout,
     retry_max_attempts |-> cfg.retry_max_attempts + 1]

\* trio.run(partial(server_, bq, table, ...)): the keyword arguments the
\* pipeline reads. cleanup_timeout is not among them.
ServerKwargs ==
    [qsize |-> cfg.queued_events, batch_size |-> cfg.batch_size,
     batch_timeout |-> cfg.batch_timeout,
     retry_max_attempts |-> cfg.retry_max_attempts]

(***************************************************************************)
(* linehaul.server: the pipeline, after sections 4.3 to 4.5 and 5 of the   *)
(* specification.                                                          *)
(***************************************************************************)
\* an argument of the server: the keyword argument when it is passed, the
\* server's own default otherwise
ServerArg(name) ==
    IF name \in DOMAIN ServerKwargs THEN ServerKwargs[name]
    ELSE srvDefault[name]

qsize == ServerArg("qsize")

batch_size == ServerArg("batch_size")

batch_timeout == ServerArg("batch_timeout")

retry_max_attempts == ServerArg("retry_max_attempts")

cleanup_timeout == ServerArg("cleanup_timeout")

\* the handoff channel's capacity is the size of the worker pool
ChanCapacity == Cardinality(Workers)

ConnInit == [state |-> "OPEN", pending |-> None, drain |-> 0]

BatcherInit == [state |-> "collect", batch |-> <<>>, age |-> 0, final |-> FALSE]

WorkerInit ==
    [state |-> "idle", batch |-> <<>>, attempt |-> 0, posts |-> 0,
     refreshed |-> FALSE]

\* the pipeline as the server starts it
PipeStart(c, d) ==
    /\ cfg = c
    /\ srvDefault = d
    /\ conn = [h \in Conns |-> ConnInit]
    /\ nread = 0
    /\ enqueued = {}
    /\ queue = <<>>
    /\ batcher = BatcherInit
    /\ chan = <<>>
    /\ worker = [w \in Workers |-> WorkerInit]
    /\ outcomes = [e \in 1..MaxEvents |-> <<>>]
    /\ shutdown = FALSE
    /\ exited = FALSE

\* the pipeline not running
PipeIdle ==
    PipeStart(CHOOSE c \in Configs : c.queued_events = 1,
              CHOOSE d \in ServerDefaults : TRUE)

\* OPEN -> STREAMING
Start(h) ==
    /\ ~exited
    /\ conn[h].state = "OPEN"
    /\ conn' = [conn EXCEPT ![h].state = "STREAMING"]
    /\ UNCHANGED <<cfg, srvDefault, nread, enqueued, queue, batcher, chan,
                   worker, outcomes, shutdown, exited, statsdVars, cliVars>>

\* STREAMING: a line is read and parsed into an event; its enqueue starts
ReadEvent(h) ==
    /\ ~exited /\ ~shutdown
    /\ conn[h].state = "STREAMING"
    /\ conn[h].pending = None
    /\ nread < MaxEvents
    /\ nread' = nread + 1
    /\ conn' = [conn EXCEPT ![h].pending = Some(nread + 1)]
    /\ UNCHANGED <<cfg, srvDefault, enqueued, queue, batcher, chan, worker,
                   outcomes, shutdown, exited, statsdVars, cliVars>>

\* the outstanding enqueue completes: the queue has room
Enqueue(h) ==
    /\ ~exited
    /\ conn[h].state \in {"STREAMING", "DRAINING"}
    /\ conn[h].pending # None
    /\ Len(queue) < qsize
    /\ queue' = Append(queue, conn[h].pending[1])
    /\ enqueued' = enqueued \cup {conn[h].pending[1]}
    /\ conn' = [conn EXCEPT ![h].pending = None]
    /\ UNCHANGED <<cfg, srvDefault, nread, batcher, chan, worker, outcomes,
                   shutdown, exited, statsdVars, cliVars>>

\* STREAMING -> DRAINING: the reader returned EOF, or the listener is
\* shutting down
Drain(h) ==
    /\ ~exited
    /\ conn[h].state = "STREAMING"
    /\ \E eof \in BOOLEAN : eof \/ shutdown
    /\ conn' = [conn EXCEPT ![h].state = "DRAINING", ![h].drain = 0]
    /\ UNCHANGED <<cfg, srvDefault, nread, enqueued, queue, batcher, chan,
                   worker, outcomes, shutdown, exited, statsdVars, cliVars>>

\* STREAMING -> FAILED: LineTooLong or a socket error
Fail(h) ==
    /\ ~exited
    /\ conn[h].state = "STREAMING"
    /\ conn' = [conn EXCEPT ![h].state = "FAILED", ![h].pending = None]
    /\ UNCHANGED <<cfg, srvDefault, nread, enqueued, queue, batcher, chan,
                   worker, outcomes, shutdown, exited, statsdVars, cliVars>>

\* DRAINING -> CLOSED: no enqueue is outstanding
DrainDone(h) ==
    /\ ~exited
    /\ conn[h].state = "DRAINING"
    /\ conn[h].pending = None
    /\ conn' = [conn EXCEPT ![h].state = "CLOSED", ![h].drain = 0]
    /\ UNCHANGED <<cfg, srvDefault, nread, enqueued, queue, batcher, chan,
                   worker, outcomes, shutdown, exited, statsdVars, cliVars>>

\* DRAINING -> FAILED: cleanup_timeout exceeded
DrainTimeout(h) ==
    /\ ~exited
    /\ conn[h].state = "DRAINING"
    /\ conn[h].pending # None
    /\ conn[h].drain >= cleanup_timeout
    /\ conn' = [conn EXCEPT ![h].state = "FAILED", ![h].pending = None,
                            ![h].drain = 0]
    /\ UNCHANGED <<cfg, srvDefault, nread, enqueued, queue, batcher, chan,
                   worker, outcomes, shutdown, exited, statsdVars, cliVars>>

\* FAILED -> CLOSED: the connection is closed immediately
CloseFailed(h) ==
    /\ ~exited
    /\ conn[h].state = "FAILED"
    /\ conn' = [conn EXCEPT ![h].state = "CLOSED"]
    /\ UNCHANGED <<cfg, srvDefault, nread, enqueued, queue, batcher, chan,
                   worker, outcomes, shutdown, exited, statsdVars, cliVars>>

\* the batcher hands `batch` off: onto the handoff channel when it has
\* room, blocked on the channel send otherwise
Handoff(batch, age, final, q) ==
    /\ queue' = q
    /\ IF Len(chan) < ChanCapacity
       THEN /\ chan' = Append(chan, batch)
            /\ batcher' = [state |-> IF final THEN "done" ELSE "collect",
                           batch |-> <<>>, age |-> 0, final |-> final]
       ELSE /\ chan' = chan
            /\ batcher' = [state |-> "blocked", batch |-> batch, age |-> age,
                           final |-> final]

\* on event: append; a full batch is handed off; the first event of a
\* batch arms the timer
TakeEvent ==
    /\ ~exited
    /\ batcher.state = "collect"
    /\ queue # <<>>
    /\ LET batch == Append(batcher.batch, Head(queue))
           age == IF batcher.batch = <<>> THEN 0 ELSE batcher.age
       IN IF Len(batch) = batch_size
          THEN Handoff(batch, age, FALSE, Tail(queue))
          ELSE /\ batcher' = [batcher EXCEPT !.batch = batch, !.age = age]
               /\ queue' = Tail(queue)
               /\ chan' = chan
    /\ UNCHANGED <<cfg, srvDefault, conn, nread, enqueued, worker, outcomes,
                   shutdown, exited, statsdVars, cliVars>>

\* on timer: a non-empty batch is handed off whatever its size
TimerFires ==
    /\ ~exited
    /\ batcher.state = "collect"
    /\ batcher.batch # <<>>
    /\ batcher.age >= batch_timeout
    /\ Handoff(batcher.batch, batcher.age, FALSE, queue)
    /\ UNCHANGED <<cfg, srvDefault, conn, nread, enqueued, worker, outcomes,
                   shutdown, exited, statsdVars, cliVars>>

\* on shutdown: the current batch, if any, is handed off and the batcher
\* terminates
BatcherShutdown ==
    /\ ~exited
    /\ batcher.state = "collect"
    /\ shutdown
    /\ IF batcher.batch # <<>>
       THEN Handoff(batcher.batch, batcher.age, TRUE, queue)
       ELSE /\ batcher' = [batcher EXCEPT !.state = "done"]
            /\ UNCHANGED <<queue, chan>>
    /\ UNCHANGED <<cfg, srvDefault, conn, nread, enqueued, worker, outcomes,
                   shutdown, exited, statsdVars, cliVars>>

\* the blocked channel send completes
Unblock ==
    /\ ~exited
    /\ batcher.state = "blocked"
    /\ Len(chan) < ChanCapacity
    /\ Handoff(batcher.batch, batcher.age, batcher.final, queue)
    /\ UNCHANGED <<cfg, srvDefault, conn, nread, enqueued, worker, outcomes,
                   shutdown, exited, statsdVars, cliVars>>

\* a worker pulls a batch from the handoff channel
Pull(w) ==
    /\ ~exited
    /\ worker[w].state = "idle"
    /\ chan # <<>>
    /\ worker' = [worker EXCEPT ![w] =
                     [WorkerInit EXCEPT !.state = "ready", !.batch = Head(chan)]]
    /\ chan' = Tail(chan)
    /\ UNCHANGED <<cfg, srvDefault, conn, nread, enqueued, queue, batcher,
                   outcomes, shutdown, exited, statsdVars, cliVars>>

\* the events of `batch` at the positions `rows` get the outcome `o`
Account(batch, rows, o) ==
    [e \in 1..MaxEvents |->
        IF \E i \in rows : batch[i] = e THEN Append(outcomes[e], o)
        ELSE outcomes[e]]


\* whether a retryable outcome of attempt number `attempt` ends the cycle
BudgetUsedUp(attempt) == attempt >= retry_max_attempts

\* one POST of the worker's batch and the classification of its outcome
Submit(w) ==
    /\ ~exited
    /\ worker[w].state = "ready"
    /\ \E r \in Responses, bad \in SUBSET DOMAIN worker[w].batch :
        LET wk == [worker[w] EXCEPT !.posts = @ + 1]
            all == DOMAIN wk.batch
            drop == /\ worker' = [worker EXCEPT ![w] =
                                     [wk EXCEPT !.state = "idle", !.batch = <<>>]]
                    /\ outcomes' = Account(wk.batch, all, "batch_dropped")
        IN CASE r = "ok" ->
                   /\ bad = {}
                   /\ worker' = [worker EXCEPT ![w] =
                                    [wk EXCEPT !.state = "idle", !.batch = <<>>]]
                   /\ outcomes' = Account(wk.batch, all, "delivered")
             [] r = "row_errors" ->
                   /\ bad # {}
                   /\ worker' = [worker EXCEPT ![w] =
                                    [wk EXCEPT !.state = "idle", !.batch = <<>>]]
                   /\ outcomes' =
                          [e \in 1..MaxEvents |->
                              IF \E i \in bad : wk.batch[i] = e
                              THEN Append(outcomes[e], "row_dropped")
                              ELSE IF \E i \in all : wk.batch[i] = e
                              THEN Append(outcomes[e], "delivered")
                              ELSE outcomes[e]]
             [] r = "auth" ->
                   \* 401/403: refresh once and resubmit outside the budget;
                   \* refused again, it is any other 4xx
                   /\ bad = {}
                   /\ IF wk.refreshed THEN drop
                      ELSE /\ worker' = [worker EXCEPT ![w] =
                                            [wk EXCEPT !.refreshed = TRUE]]
                           /\ outcomes' = outcomes
             [] r = "retryable" ->
                   /\ bad = {}
                   /\ IF BudgetUsedUp(wk.attempt + 1) THEN drop
                      ELSE /\ worker' = [worker EXCEPT ![w] =
                                            [wk EXCEPT !.state = "sleep",
                                                       !.attempt = @ + 1]]
                           /\ outcomes' = outcomes
             [] r = "permanent" ->
                   /\ bad = {}
                   /\ drop
    /\ UNCHANGED <<cfg, srvDefault, conn, nread, enqueued, queue, batcher,
                   chan, shutdown, exited, statsdVars, cliVars>>

\* the backoff sleep ends
Wake(w) ==
    /\ ~exited
    /\ worker[w].state = "sleep"
    /\ worker' = [worker EXCEPT ![w].state = "ready"]
    /\ UNCHANGED <<cfg, srvDefault, conn, nread, enqueued, queue, batcher,
                   chan, outcomes, shutdown, exited, statsdVars, cliVars>>

\* a task can take a step without waiting for input, for room or for time:
\* tasks run as soon as they can, only waiting takes time
StepDue ==
    \/ batcher.state = "collect" /\ (queue # <<>> \/ shutdown)
    \/ batcher.state = "collect" /\ batcher.batch # <<>>
           /\ batcher.age >= batch_timeout
    \/ batcher.state = "blocked" /\ Len(chan) < ChanCapacity
    \/ \E w \in Workers : worker[w].state = "idle" /\ chan # <<>>
    \/ \E h \in Conns :
           \/ conn[h].state \in {"OPEN", "FAILED"}
           \/ conn[h].state = "STREAMING" /\ shutdown
           \/ conn[h].state \in {"STREAMING", "DRAINING"}
                  /\ conn[h].pending # None /\ Len(queue) < qsize
           \/ conn[h].state = "DRAINING"
                  /\ (conn[h].pending = None \/ conn[h].drain >= cleanup_timeout)

\* one unit of time passes, for the batch timer and the drain deadlines
Tick ==
    /\ ~exited
    /\ \/ batcher.batch # <<>>
       \/ \E h \in Conns : conn[h].state = "DRAINING"
    /\ ~StepDue
    /\ batcher' = IF batcher.batch # <<>> /\ batcher.age <= batch_timeout
                  THEN [batcher EXCEPT !.age = @ + 1] ELSE batcher
    /\ conn' = [h \in Conns |->
                   IF conn[h].state = "DRAINING"
                   THEN [conn[h] EXCEPT !.drain = @ + 1] ELSE conn[h]]
    /\ UNCHANGED <<cfg, srvDefault, nread, enqueued, queue, chan, worker,
                   outcomes, shutdown, exited, statsdVars, cliVars>>

\* SIGINT or SIGTERM
Signal ==
    /\ ~shutdown
    /\ shutdown' = TRUE
    /\ UNCHANGED <<cfg, srvDefault, conn, nread, enqueued, queue, batcher,
                   chan, worker, outcomes, exited, statsdVars, cliVars>>

\* the process exits: handlers closed, batcher terminated, handoff channel
\* drained, no delivery in flight
Exit ==
    /\ shutdown /\ ~exited
    /\ \A h \in Conns : conn[h].state = "CLOSED"
    /\ batcher.state = "done"
    /\ chan = <<>>
    /\ \A w \in Workers : worker[w].state = "idle"
    /\ exited' = TRUE
    /\ UNCHANGED <<cfg, srvDefault, conn, nread, enqueued, queue, batcher,
                   chan, worker, outcomes, shutdown, statsdVars, cliVars>>

PipeInit ==
    /\ \E c \in Configs, d \in ServerDefaults : PipeStart(c, d)
    /\ StatsdStart(None, None)
    /\ CliIdle

PipeNext ==
    \/ \E h \in Conns : Start(h)
    \/ \E h \in Conns : ReadEvent(h)
    \/ \E h \in Conns : Enqueue(h)
    \/ \E h \in Conns : Drain(h)
    \/ \E h \in Conns : Fail(h)
    \/ \E h \in Conns : DrainDone(h)
    \/ \E h \in Conns : DrainTimeout(h)
    \/ \E h \in Conns : CloseFailed(h)
    \/ TakeEvent
    \/ TimerFires
    \/ BatcherShutdown
    \/ Unblock
    \/ \E w \in Workers : Pull(w)
    \/ \E w \in Workers : Submit(w)
    \/ \E w \in Workers : Wake(w)
    \/ Tick
    \/ Signal
    \/ Exit

PipeSpec == PipeInit /\ [][PipeNext]_vars

CliInit ==
    /\ \E cmd \in Commands,
          file \in {None} \cup {Some(k) : k \in FileKinds},
          blob \in {None} \cup {Some(k) : k \in BlobKinds},
          token \in Tokens, twin_token \in Tokens :
           /\ cmd = "migrate" => token = None /\ twin_token = None
           /\ CliStart(cmd, file, blob, token, twin_token)
    /\ StatsdStart(None, None)
    /\ PipeIdle

CliNext ==
    \/ ParseOptions
    \/ Group
    \/ Command
    \/ LogConfiguration
    \/ Run
    \/ Return

CliSpec == CliInit /\ [][CliNext]_vars

Init ==
    /\ \E a \in {<<None, None>>, <<Some("linehaul"), <<"env:prod">>>>} :
           StatsdStart(a[1], a[2])
    /\ PipeIdle
    /\ CliIdle

Next ==
    \/ \E t \in Tasks : CallCounter(t)
    \/ \E t \in Tasks : CallTimed(t)
    \/ \E t \in Tasks : BodyExit(t)
    \/ \E t \in Tasks : Connected(t)
    \/ \E t \in Tasks : Send(t)
    \/ CloseSocket

Spec == Init /\ [][Next]_vars

\* the sink with configure calls among the metric calls
ConfNext ==
    \/ \E t \in Tasks : Configure(t)
    \/ \E t \in Tasks : EmitPlain(t)
    \/ \E t \in Tasks : Connected(t)
    \/ \E t \in Tasks : Send(t)
    \/ CloseSocket

ConfSpec == Init /\ [][ConfNext]_vars

(***************************************************************************)
(* Properties of the metrics sink.                                         *)
(***************************************************************************)
\* the packet increment(metric, value, tags, rate) sends when it sends one
IncrementPacket(metric, value, tags, rate) ==
    Payload(metric, "c", IntToStr(value), AddConstantTags(tags), rate)

TimedOps == {"timed_call", "timed_with"}

\* C8: until the socket is closed at shutdown at most one UDP socket is
\* created, whatever the interleaving of the tasks, and every packet is
\* sent on that one socket.
C8_SingleSocket ==
    (\A i \in DOMAIN sockets : sockets[i] = "open")
        => /\ Len(sockets) <= 1
           /\ Cardinality(usedSocks) <= 1

\* C9: a call of a function wrapped by timed(metric), and an
\* `async with timed(metric)` block, whose body has returned or raised has
\* sent exactly one timing packet (sample rate 1), and the caller sees the
\* body's exception exactly when the body raised; the exception is seen
\* only once the packet is out.
C9_TimedEmitsOnEveryExit ==
    \A t \in Tasks :
        LET tk == task[t]
        IN (tk.call.op \in TimedOps /\ tk.call.metric # None
              /\ tk.call.rate = "1" /\ tk.body # "none")
           => /\ tk.pc = "idle" =>
                   /\ Len(tk.sent) = 1
                   /\ \E e \in 0..1 :
                          tk.sent[1].payload =
                              Payload(tk.call.metric[1], "ms",
                                      ElapsedStr(e, tk.call.use_ms),
                                      AddConstantTags(tk.call.tags), "1")
                   /\ tk.result = IF tk.body = "raise" THEN "raised" ELSE "ok"
              /\ tk.pc # "idle" => tk.result = "none" /\ tk.sent = <<>>

C9_Witness ==
    \E t \in Tasks :
        /\ task[t].pc = "idle"
        /\ task[t].call.op = "timed_call"
        /\ task[t].call.metric # None
        /\ task[t].call.rate = "1"
        /\ task[t].body = "raise"
        /\ task[t].result = "raised"
        /\ Len(task[t].sent) = 1

\* C10: decrement(metric, v) for an integer v sends one counter packet
\* (sample rate 1), the packet increment(metric, -v) sends, whose value is
\* printed as 0 when v is 0; decrement(metric, None) sends nothing.
C10_DecrementValue ==
    \A t \in Tasks :
        LET tk == task[t]
        IN (tk.call.op = "decrement" /\ tk.pc = "idle")
           => IF tk.call.value = None THEN tk.sent = <<>>
              ELSE /\ tk.call.rate = "1" => Len(tk.sent) = 1
                   /\ Len(tk.sent) <= 1
                   /\ \A i \in DOMAIN tk.sent :
                          /\ tk.sent[i].payload =
                                 IncrementPacket(tk.call.metric[1],
                                                 0 - tk.call.value[1],
                                                 tk.call.tags, tk.call.rate)
                          /\ tk.call.value[1] = 0 =>
                                 tk.sent[i].payload =
                                     Payload(tk.call.metric[1], "c", "0",
                                             AddConstantTags(tk.call.tags),
                                             tk.call.rate)

C10_Witness ==
    \E t \in Tasks :
        /\ task[t].pc = "idle"
        /\ task[t].call.op = "decrement"
        /\ task[t].call.value = Some(0 - 1)
        /\ Len(task[t].sent) = 1

\* the step is a configure call by task t
ConfigureStep(t) ==
    /\ task'[t].calls = task[t].calls + 1
    /\ task'[t].call.op = "configure"

\* the keys of a configure call
KwargKeys(kwargs) == {kwargs[i][1] : i \in DOMAIN kwargs}

\* C11: once a metric has been sent a configure call raises RuntimeError
\* and changes no attribute of the sink, also after the socket has been
\* closed; while no socket has been created a configure call with accepted
\* keys raises nothing, sets each of its keys to the value given and
\* leaves every other attribute as it was.
C11_FrozenAfterSend ==
    [][\A t \in Tasks :
          ConfigureStep(t) =>
              LET kwargs == task'[t].call.kwargs
              IN /\ usedSocks # {} =>
                       /\ task'[t].result = "RuntimeError"
                       /\ statsd' = statsd
                 /\ (sockets = <<>> /\ KwargKeys(kwargs) \subseteq AcceptedKeys) =>
                       /\ task'[t].result = "ok"
                       /\ \A i \in DOMAIN kwargs :
                              statsd'[kwargs[i][1]] = kwargs[i][2]
                       /\ \A k \in DOMAIN statsd \ KwargKeys(kwargs) :
                              statsd'[k] = statsd[k]]_vars

C11_Witness ==
    \E t \in Tasks :
        /\ task[t].call.op = "configure"
        /\ task[t].result = "RuntimeError"
        /\ usedSocks # {}
        /\ sockets = <<"closed">>
        /\ statsd._socket = None

\* C12: a configure call with a key outside the accepted set, made before
\* any socket exists, raises TypeError and changes no attribute of the
\* sink, wherever the key stands in the call.
C12_AllOrNothing ==
    [][\A t \in Tasks :
          (ConfigureStep(t) /\ ~statsd.has_socket
             /\ ~(KwargKeys(task'[t].call.kwargs) \subseteq AcceptedKeys))
          => /\ task'[t].result = "TypeError"
             /\ statsd' = statsd]_vars

(***************************************************************************)
(* Properties of the pipeline.                                             *)
(***************************************************************************)
\* C1: when the process has exited, every event that was put on the shared
\* queue has exactly one accounted outcome: delivered, dropped as a per-row
\* error, or part of a dropped batch.
C1_AtLeastOnce ==
    exited => \A e \in enqueued : Len(outcomes[e]) = 1

\* C2: a batch that only met retryable responses (429, 5xx, network error,
\* timeout) has been posted at most --retry-max-attempts times, and a batch
\* whose events are accounted for is no longer held by any worker.
C2_RetryBudget ==
    \A w \in Workers :
        /\ ~worker[w].refreshed => worker[w].posts <= cfg.retry_max_attempts
        /\ \A i \in DOMAIN worker[w].batch :
               outcomes[worker[w].batch[i]] = <<>>
        /\ worker[w].state = "sleep" => worker[w].attempt < cfg.retry_max_attempts

C2_Witness ==
    \E w \in Workers :
        /\ worker[w].state = "idle"
        /\ ~worker[w].refreshed
        /\ cfg.retry_max_attempts = 2
        /\ worker[w].posts = cfg.retry_max_attempts
        /\ \E e \in enqueued : outcomes[e] = <<"batch_dropped">>

C5_BatchSize ==
    /\ \A i \in DOMAIN chan :
           Len(chan[i]) >= 1 /\ Len(chan[i]) <= cfg.batch_size
    /\ \A w \in Workers :
           worker[w].state # "idle" =>
               Len(worker[w].batch) >= 1 /\ Len(worker[w].batch) <= cfg.batch_size
    /\ Len(batcher.batch) <= cfg.batch_size
    /\ batcher.state = "blocked" => Len(batcher.batch) >= 1
    /\ batcher.state = "collect" => Len(batcher.batch) < cfg.batch_size

C5_Witness ==
    /\ cfg.batch_size = 2
    /\ \E i \in DOMAIN chan : Len(chan[i]) = cfg.batch_size
    /\ \E w \in Workers : worker[w].state = "ready" /\ Len(worker[w].batch) = 1

\* C6: a handler in DRAINING has waited at most --cleanup-timeout.
C6_DrainDeadline ==
    \A h \in Conns :
        conn[h].state = "DRAINING" => conn[h].drain <= cfg.cleanup_timeout

(***************************************************************************)
(* Properties of the command line.                                         *)
(***************************************************************************)
ExactlyOneGiven == (cli.credentials_file = None) # (cli.blob_option = None)

\* the one option given holds service account credentials
GivenIsCredentials ==
    \/ cli.credentials_file = Some("credentials") /\ cli.blob_option = None
    \/ cli.credentials_file = None /\ cli.blob_option = Some("credentials")

UsageErrors == {Some("UsageError"), Some("BadParameter")}

\* C7 as stated: at the end of a run the BigQuery client has been
\* constructed if and only if exactly one of --credentials-file and
\* --credentials-blob was given.
C7_ClientIffExactlyOne ==
    cli.pc = "exit" => (cli.clients = 1 <=> ExactlyOneGiven)

\* C7: the BigQuery client is constructed if and only if exactly one of the
\* two options is given and it holds credentials; with neither or both the
\* run ends in a usage error with no client constructed and nothing
\* started; nothing is started without a client.
C7_ClientIffOneWellFormed ==
    /\ cli.clients <= 1
    /\ cli.pc \in {"log", "run", "running", "exit"}
           => (cli.clients = 1 <=> ExactlyOneGiven /\ GivenIsCredentials)
    /\ cli.pc \in {"parse", "group", "command"} => cli.clients = 0
    /\ (cli.pc = "exit" /\ ~ExactlyOneGiven)
           => cli.error \in UsageErrors /\ cli.clients = 0
              /\ cli.started = None /\ cli.exit_code # Some(0)
    /\ cli.started # None => cli.clients = 1

C7_Witness ==
    /\ cli.pc = "exit"
    /\ cli.credentials_file = Some("credentials")
    /\ cli.blob_option = Some("credentials")
    /\ cli.error = Some("UsageError")
    /\ cli.clients = 0

\* the line that would show the token of a run
TokenLine(token) ==
    "Configuring token to "
    \o Repr(IF token = None THEN PyNone ELSE PyStr(token[1]))

\* C13: once server() has written its configuration to the debug log, the
\* log is line for line the log of the run that differs only in --token,
\* whatever the two tokens are and also when one is not given; it has one
\* line per configuration key after the credentials line, and no line
\* shows the token of either run.
C13_TokenNotLogged ==
    cli.pc \in {"run", "running"} /\ cli.cmd = "server"
        => /\ cli.log = cli.twin_log
           /\ Len(cli.log) = 1 + Len(ServerConfiguration(cli.token))
           /\ \A i \in DOMAIN cli.log :
                  /\ cli.token # None => cli.log[i] # TokenLine(cli.token)
                  /\ cli.twin_token # None =>
                         cli.twin_log[i] # TokenLine(cli.twin_token)

C13_Witness ==
    /\ cli.pc = "run"
    /\ cli.cmd = "server"
    /\ cli.token = Some("s3cret")
    /\ cli.twin_token = None
    /\ Len(cli.log) > 1
    /\ cli.log[4] = "Configuring token to '**********'"

====
